---- MODULE Spec2Model ----
(***************************************************************************)
(* Model of evaluate.evaluator.base.Evaluator: the constructor, the three  *)
(* prepare_* helpers and core_compute with its bootstrap loop.             *)
(*                                                                         *)
(* Python values are records tagged by `kind`; None is [kind |-> "None"].  *)
(* An Optional[int] is a sequence of length at most one.                   *)
(* Every call leaves its arguments in `call`, its result in `outcome` and  *)
(* the calls it made into the external libraries, in order, in `trace`.    *)
(***************************************************************************)
EXTENDS Integers, Sequences, FiniteSets, TLC

\* ------------------------------------------------------------------ bounds
\* n_resamples ranges over 1..MaxResamples
MaxResamples == 2
\* number of observations in predictions / references
DataLen == 2
\* the generator behind random_state is in one of the states 0..MaxSeed
MaxSeed == 1

\* ----------------------------------------------------------- Python values
None == [kind |-> "None"]
Str(s) == [kind |-> "str", name |-> s]
Unset == "<unset>"

Return(v) == [kind |-> "return", value |-> v]
Raise(exc, msg) == [kind |-> "raise", exc |-> exc, msg |-> msg]
Running == [kind |-> "running"]

Tasks == {"text-classification", "question-answering"}

\* ------------------------------------------------- datasets (external lib)
InputColumns == {"text", "missing"}
LabelColumns == {"label", "missing"}

Dataset(id, cols) == [kind |-> "Dataset", id |-> id, column_names |-> cols]

DatasetNames == {"imdb", "labels_only"}

\* load_dataset(name): the dataset the hub serves under that name
load_dataset(name) ==
    IF name = "imdb" THEN Dataset("hub:imdb", {"text", "label"})
    ELSE Dataset("hub:labels_only", {"label"})

PreloadedDatasets ==
    { Dataset("ds_full", {"text", "label"}),
      Dataset("ds_nolabel", {"text"}) }

DataArgs == {None} \cup {Str(n) : n \in DatasetNames} \cup PreloadedDatasets

\* ------------------------------------------------------------------- state
VARIABLES TRANSFORMERS_AVAILABLE, SCIPY_AVAILABLE,
          constructed, task, default_metric_name,
          pc, call, outcome, trace,
          result, metric_keys, idx, key, bootstrap_dict,
          remembered, observing

modvars == <<TRANSFORMERS_AVAILABLE, SCIPY_AVAILABLE>>
selfvars == <<task, default_metric_name>>
loopvars == <<result, metric_keys, idx, key, bootstrap_dict>>
vars == <<TRANSFORMERS_AVAILABLE, SCIPY_AVAILABLE, constructed, task,
          default_metric_name, pc, call, outcome, trace, result, metric_keys,
          idx, key, bootstrap_dict, remembered, observing>>

NoCall == [op |-> "none", args |-> <<>>]

InitCommon ==
    /\ TRANSFORMERS_AVAILABLE \in BOOLEAN
    /\ SCIPY_AVAILABLE \in BOOLEAN
    /\ constructed = "no"
    /\ task = Unset
    /\ default_metric_name = [kind |-> "unset"]
    /\ pc = "idle"
    /\ call = NoCall
    /\ outcome = Running
    /\ trace = <<>>
    /\ result = <<>>
    /\ metric_keys = <<>>
    /\ idx = 0
    /\ key = ""
    /\ bootstrap_dict = <<>>
    /\ remembered = None

Init ==
    /\ InitCommon
    /\ observing = FALSE

\* The same program watched by an observer that keeps one earlier completed
\* call of the evaluator, to compare later calls with.
InitObserved ==
    /\ InitCommon
    /\ observing = TRUE

Observe ==
    /\ remembered' \in {remembered} \cup
          (IF observing /\ remembered = None
                        /\ call.op \notin {"none", "__init__"}
           THEN {[call |-> call, outcome |-> outcome]}
           ELSE {})
    /\ UNCHANGED observing

\* ---------------------------------------------------------------- __init__
\* variant: the scipy check comes first
InitOutcomeScipyFirst(transformers, scipy) ==
    IF ~scipy THEN Raise("ImportError", "scipy>=1.7.1")
    ELSE IF ~transformers THEN Raise("ImportError", "transformers")
    ELSE Return(None)

InitOutcome(transformers, scipy) ==
    IF ~transformers THEN Raise("ImportError", "transformers")
    ELSE IF ~scipy THEN Raise("ImportError", "scipy>=1.7.1")
    ELSE Return(None)

Construct ==
    /\ constructed = "no"
    /\ \E t \in Tasks, d \in {None, Str("accuracy")} :
         LET out == InitOutcome(TRANSFORMERS_AVAILABLE, SCIPY_AVAILABLE) IN
         /\ call' = [op |-> "__init__", args |-> <<t, d>>]
         /\ outcome' = out
         /\ IF out.kind = "return"
            THEN /\ task' = t
                 /\ default_metric_name' = d
                 /\ constructed' = "yes"
            ELSE /\ UNCHANGED selfvars
                 /\ constructed' = "failed"
    /\ trace' = <<>>
    /\ UNCHANGED <<modvars, pc, loopvars, remembered, observing>>

\* ------------------------------------------------------------ prepare_data
\* variant: the label column is checked before the input column
prepare_data_label_first(data, input_column, label_column) ==
    IF data.kind = "None"
    THEN [outcome |-> Raise("ValueError", "data"), trace |-> <<>>]
    ELSE LET loaded == IF data.kind = "str" THEN load_dataset(data.name) ELSE data
             tr == IF data.kind = "str"
                   THEN << <<"load_dataset", data.name>> >> ELSE <<>>
         IN IF label_column \notin loaded.column_names
            THEN [outcome |-> Raise("ValueError", "label_column"), trace |-> tr]
            ELSE IF input_column \notin loaded.column_names
            THEN [outcome |-> Raise("ValueError", "input_column"), trace |-> tr]
            ELSE [outcome |-> Return(loaded), trace |-> tr]

\* variant: a validated dataset is handed back as a fresh copy
prepare_data_copy(data, input_column, label_column) ==
    IF data.kind = "None"
    THEN [outcome |-> Raise("ValueError", "data"), trace |-> <<>>]
    ELSE LET loaded == IF data.kind = "str" THEN load_dataset(data.name) ELSE data
             tr == IF data.kind = "str"
                   THEN << <<"load_dataset", data.name>> >> ELSE <<>>
         IN IF input_column \notin loaded.column_names
            THEN [outcome |-> Raise("ValueError", "input_column"), trace |-> tr]
            ELSE IF label_column \notin loaded.column_names
            THEN [outcome |-> Raise("ValueError", "label_column"), trace |-> tr]
            ELSE [outcome |-> Return(Dataset("copy", loaded.column_names)),
                  trace |-> tr]

prepare_data(data, input_column, label_column) ==
    IF data.kind = "None"
    THEN [outcome |-> Raise("ValueError", "data"), trace |-> <<>>]
    ELSE LET loaded == IF data.kind = "str" THEN load_dataset(data.name) ELSE data
             tr == IF data.kind = "str"
                   THEN << <<"load_dataset", data.name>> >> ELSE <<>>
         IN IF input_column \notin loaded.column_names
            THEN [outcome |-> Raise("ValueError", "input_column"), trace |-> tr]
            ELSE IF label_column \notin loaded.column_names
            THEN [outcome |-> Raise("ValueError", "label_column"), trace |-> tr]
            ELSE [outcome |-> Return(loaded), trace |-> tr]

PrepareData ==
    /\ constructed = "yes"
    /\ pc = "idle"
    /\ \E data \in DataArgs, ic \in InputColumns, lc \in LabelColumns :
         LET r == prepare_data(data, ic, lc) IN
         /\ call' = [op |-> "prepare_data", args |-> <<data, ic, lc>>]
         /\ outcome' = r.outcome
         /\ trace' = r.trace
    /\ Observe
    /\ UNCHANGED <<modvars, constructed, selfvars, pc, loopvars>>

\* -------------------------------------------- pipelines (external library)
Model(kind, id) == [kind |-> kind, id |-> id]

Pipeline(id, t, model, tokenizer, feature_extractor) ==
    [kind |-> "Pipeline", id |-> id, task |-> t, model |-> model,
     tokenizer |-> tokenizer, feature_extractor |-> feature_extractor]

\* a plain callable; has_task tells whether it carries a `task` attribute
Callable(id, has_task, t) ==
    [kind |-> "Callable", id |-> id, has_task |-> has_task, task |-> t]

\* transformers.pipeline(task, model=, tokenizer=, feature_extractor=):
\* a new pipeline for that task; omitted arguments are None
pipeline(t, model, tokenizer, feature_extractor) ==
    Pipeline("new", t, model, tokenizer, feature_extractor)

ModelOrPipelineArgs ==
    { None, Str("distilbert"),
      Model("PreTrainedModel", "pt"), Model("TFPreTrainedModel", "tf"),
      Callable("fn", FALSE, ""), Callable("fn_task", TRUE, "text-classification") }
    \cup { Pipeline("pre", t, Str("bert"), None, None) : t \in Tasks }

PreprocessorArgs ==
    { None, Model("PreTrainedTokenizerBase", "tok") }

\* getattr(obj, "task") succeeds
HasTaskAttr(obj) ==
    obj.kind = "Pipeline" \/ (obj.kind = "Callable" /\ obj.has_task)

\* --------------------------------------------------------- prepare_pipeline
\* variant: the default pipeline is built with the preprocessor too
prepare_pipeline_always_preprocess(self_task, model_or_pipeline, preprocessor) ==
    LET is_model == model_or_pipeline.kind \in
                      {"PreTrainedModel", "TFPreTrainedModel", "str"}
        pipe == IF is_model \/ model_or_pipeline.kind = "None"
                THEN pipeline(self_task, model_or_pipeline, preprocessor, preprocessor)
                ELSE model_or_pipeline
        built == IF is_model \/ model_or_pipeline.kind = "None"
                 THEN << <<"pipeline", pipe>> >> ELSE <<>>
        warned == IF ~is_model /\ preprocessor.kind # "None"
                  THEN << <<"logger.warning", "Ignoring preprocessor">> >>
                  ELSE <<>>
        tr == built \o warned
    IN IF ~HasTaskAttr(pipe)
       THEN [outcome |-> Raise("AttributeError", "task"), trace |-> tr]
       ELSE IF pipe.task # self_task
       THEN [outcome |-> Raise("ValueError", "Incompatible model_or_pipeline"),
             trace |-> tr]
       ELSE [outcome |-> Return(pipe), trace |-> tr]

prepare_pipeline(self_task, model_or_pipeline, preprocessor) ==
    LET is_model == model_or_pipeline.kind \in
                      {"PreTrainedModel", "TFPreTrainedModel", "str"}
        pipe == IF is_model
                THEN pipeline(self_task, model_or_pipeline, preprocessor, preprocessor)
                ELSE IF model_or_pipeline.kind = "None"
                THEN pipeline(self_task, None, None, None)
                ELSE model_or_pipeline
        built == IF is_model \/ model_or_pipeline.kind = "None"
                 THEN << <<"pipeline", pipe>> >> ELSE <<>>
        warned == IF ~is_model /\ preprocessor.kind # "None"
                  THEN << <<"logger.warning", "Ignoring preprocessor">> >>
                  ELSE <<>>
        tr == built \o warned
    IN IF ~HasTaskAttr(pipe)
       THEN [outcome |-> Raise("AttributeError", "task"), trace |-> tr]
       ELSE IF pipe.task # self_task
       THEN [outcome |-> Raise("ValueError", "Incompatible model_or_pipeline"),
             trace |-> tr]
       ELSE [outcome |-> Return(pipe), trace |-> tr]

PreparePipeline ==
    /\ constructed = "yes"
    /\ pc = "idle"
    /\ \E m \in ModelOrPipelineArgs, p \in PreprocessorArgs :
         LET r == prepare_pipeline(task, m, p) IN
         /\ call' = [op |-> "prepare_pipeline", args |-> <<m, p>>]
         /\ outcome' = r.outcome
         /\ trace' = r.trace
    /\ Observe
    /\ UNCHANGED <<modvars, constructed, selfvars, pc, loopvars>>

\* ----------------------------------------------- metrics (evaluate.loading)
EvaluationModule(id, name) ==
    [kind |-> "EvaluationModule", id |-> id, name |-> name]

\* evaluate.load(name): the module published under that name
load(name) == EvaluationModule("loaded", name)

MetricArgs ==
    { None, Str("accuracy"), Str("precision_recall"),
      EvaluationModule("user", "accuracy"), Model("object", "anything") }

\* ----------------------------------------------------------- prepare_metric
\* variant: a configured default wins over a metric given by name
prepare_metric_default_first(self_default_metric_name, metric) ==
    IF metric.kind \in {"None", "str"} /\ self_default_metric_name.kind = "str"
    THEN [outcome |-> Return(load(self_default_metric_name.name)),
          trace |-> << <<"load", self_default_metric_name.name>> >>]
    ELSE IF metric.kind = "None"
    THEN [outcome |-> Raise("ValueError", "no default metric"), trace |-> <<>>]
    ELSE IF metric.kind = "str"
    THEN [outcome |-> Return(load(metric.name)),
          trace |-> << <<"load", metric.name>> >>]
    ELSE [outcome |-> Return(metric), trace |-> <<>>]

prepare_metric(self_default_metric_name, metric) ==
    IF metric.kind = "None"
    THEN IF self_default_metric_name.kind = "None"
         THEN [outcome |-> Raise("ValueError", "no default metric"), trace |-> <<>>]
         ELSE [outcome |-> Return(load(self_default_metric_name.name)),
               trace |-> << <<"load", self_default_metric_name.name>> >>]
    ELSE IF metric.kind = "str"
    THEN [outcome |-> Return(load(metric.name)),
          trace |-> << <<"load", metric.name>> >>]
    ELSE [outcome |-> Return(metric), trace |-> <<>>]

\* variant: a metric given by name becomes the evaluator's default
PrepareMetricRemembering ==
    /\ constructed = "yes"
    /\ pc = "idle"
    /\ \E metric \in MetricArgs :
         LET r == prepare_metric(default_metric_name, metric) IN
         /\ call' = [op |-> "prepare_metric", args |-> <<metric>>]
         /\ outcome' = r.outcome
         /\ trace' = r.trace
         /\ default_metric_name' =
              (IF metric.kind = "str" THEN metric ELSE default_metric_name)
    /\ Observe
    /\ UNCHANGED <<modvars, constructed, task, pc, loopvars>>

PrepareMetric ==
    /\ constructed = "yes"
    /\ pc = "idle"
    /\ \E metric \in MetricArgs :
         LET r == prepare_metric(default_metric_name, metric) IN
         /\ call' = [op |-> "prepare_metric", args |-> <<metric>>]
         /\ outcome' = r.outcome
         /\ trace' = r.trace
    /\ Observe
    /\ UNCHANGED <<modvars, constructed, selfvars, pc, loopvars>>

\* ------------------------------------------------------ dicts (insertion order)
\* A Python dict is the sequence of its items in insertion order.
Item(k, v) == [k |-> k, v |-> v]

Keys(d) == [i \in 1..Len(d) |-> d[i].k]

HasKey(d, k) == \E i \in 1..Len(d) : d[i].k = k

Get(d, k) == d[CHOOSE i \in 1..Len(d) : d[i].k = k].v

\* d[k] = v
DictSet(d, k, v) ==
    IF HasKey(d, k)
    THEN [i \in 1..Len(d) |-> IF d[i].k = k THEN Item(k, v) ELSE d[i]]
    ELSE Append(d, Item(k, v))

\* ------------------------------------------- metric modules (external code)
Max(a, b) == IF a > b THEN a ELSE b

\* metric.compute(predictions=, references=): the scores, in percent
compute(metric, predictions, references) ==
    LET n == Len(predictions)
        hit == Cardinality({i \in 1..n : predictions[i] = references[i]})
        tp == Cardinality({i \in 1..n : predictions[i] = 1 /\ references[i] = 1})
        pp == Cardinality({i \in 1..n : predictions[i] = 1})
        rp == Cardinality({i \in 1..n : references[i] = 1})
    IN IF metric.name = "accuracy"
       THEN << Item("accuracy", (hit * 100) \div n) >>
       ELSE << Item("precision", (tp * 100) \div Max(1, pp)),
               Item("recall", (tp * 100) \div Max(1, rp)) >>

Ones(n) == [i \in 1..n |-> 1]
Alt(n) == [i \in 1..n |-> i % 2]

PredictionArgs == {Ones(DataLen)}
ReferenceArgs == {Alt(DataLen)}
MetricModules == {EvaluationModule("user", "accuracy"),
                  EvaluationModule("user", "precision_recall")}
Strategies == {"simple", "bootstrap", "other"}
ConfidenceLevels == {90, 95}
\* random_state: <<>> is None, <<s>> is the integer seed s
RandomStates == {<<>>, <<0>>}

\* ------------------------------------------------- scipy.stats.bootstrap
\* the r-th resample (indices drawn with replacement) of a generator in
\* state `seed`
Resample(seed, r, n) == [j \in 1..n |-> (((seed + r) * j) % n) + 1]

Pick(xs, ind) == [j \in 1..Len(ind) |-> xs[ind[j]]]

RECURSIVE Sum(_, _)
Sum(f, n) == IF n = 0 THEN 0 ELSE Sum(f, n - 1) + f[n]

\* smallest value with at least q/200 of the distribution at or below it
Quantile(xs, q) ==
    LET n == Len(xs)
        below(v) == Cardinality({i \in 1..n : xs[i] <= v})
        ok == {xs[i] : i \in {j \in 1..n : below(xs[j]) * 200 >= q * n}}
    IN CHOOSE v \in ok : \A w \in ok : v <= w

\* variant: the lambda extracts the first key whatever the loop variable is
statistic_first_key(metric, k, predictions, references) ==
    compute(metric, predictions, references)[1].v

\* the lambda of _compute_confidence_interval: metric.compute(...)[key]
statistic(metric, k, predictions, references) ==
    Get(compute(metric, predictions, references), k)

\* bootstrap(data=(predictions, references), statistic=, paired=True,
\*           confidence_level=, n_resamples=, random_state=)
\* with the generator in state `seed`; k is the value of the loop variable
\* `key` while the call runs.  standard_error is kept as n(n-1) times its
\* square, an integer.
bootstrap(predictions, references, metric, k, confidence_level, n_resamples, seed) ==
    LET ind(r) == Resample(seed, r, Len(predictions))
        dist == [r \in 1..n_resamples |->
                   statistic(metric, k, Pick(predictions, ind(r)),
                             Pick(references, ind(r)))]
        sq == [r \in 1..n_resamples |-> dist[r] * dist[r]]
    IN [confidence_interval |->
            [low |-> Quantile(dist, 100 - confidence_level),
             high |-> Quantile(dist, 100 + confidence_level)],
        standard_error |->
            n_resamples * Sum(sq, n_resamples)
              - Sum(dist, n_resamples) * Sum(dist, n_resamples)]

\* ------------------------------------------------------------- core_compute
\* variant: everything but "simple" is bootstrapped
IsNotSimple(strategy) == strategy # "simple"

\* if strategy == "bootstrap":
IsBootstrap(strategy) == strategy = "bootstrap"

\* result = metric.compute(...); then either return it or enter the loop of
\* _compute_confidence_interval
CoreCompute ==
    /\ constructed = "yes"
    /\ pc = "idle"
    /\ \E references \in ReferenceArgs, predictions \in PredictionArgs,
          metric \in MetricModules, strategy \in Strategies,
          confidence_level \in ConfidenceLevels,
          n_resamples \in 1..MaxResamples, random_state \in RandomStates :
         LET res == compute(metric, predictions, references) IN
         /\ call' = [op |-> "core_compute",
                     args |-> <<references, predictions, metric, strategy,
                                confidence_level, n_resamples, random_state>>]
         /\ trace' = << <<"metric.compute", predictions, references>> >>
         /\ IF IsBootstrap(strategy)
            THEN /\ pc' = "bootstrap"
                 /\ result' = res
                 /\ metric_keys' = Keys(res)
                 /\ idx' = 1
                 /\ bootstrap_dict' = <<>>
                 /\ outcome' = Running
            ELSE /\ pc' = "idle"
                 /\ result' = <<>>
                 /\ metric_keys' = <<>>
                 /\ idx' = 0
                 /\ bootstrap_dict' = <<>>
                 /\ outcome' = Return(res)
    /\ key' = ""
    /\ Observe
    /\ UNCHANGED <<modvars, constructed, selfvars>>

\* one iteration of `for key in metric_keys` in _compute_confidence_interval
BootstrapIteration ==
    /\ pc = "bootstrap"
    /\ idx <= Len(metric_keys)
    /\ LET references == call.args[1]
           predictions == call.args[2]
           metric == call.args[3]
           confidence_level == call.args[5]
           n_resamples == call.args[6]
           random_state == call.args[7]
           k == metric_keys[idx]
       IN \E seed \in (IF random_state = <<>> THEN 0..MaxSeed
                       ELSE {random_state[1]}) :
            LET bs == bootstrap(predictions, references, metric, k,
                                confidence_level, n_resamples, seed)
            IN /\ key' = k
               /\ bootstrap_dict' =
                    DictSet(bootstrap_dict, k,
                            << Item("confidence_interval",
                                    <<bs.confidence_interval.low,
                                      bs.confidence_interval.high>>),
                               Item("standard_error", bs.standard_error) >>)
               /\ trace' = Append(trace,
                                  <<"bootstrap", predictions, references, k,
                                    confidence_level, n_resamples, random_state>>)
    /\ idx' = idx + 1
    /\ UNCHANGED <<modvars, constructed, selfvars, pc, call, outcome, result,
                   metric_keys, remembered, observing>>

RECURSIVE AddScoresFirstKey(_, _, _, _)
\* variant: every entry gets the score of the first key
AddScoresFirstKey(bd, keys, res, i) ==
    IF i > Len(keys) THEN bd
    ELSE AddScoresFirstKey(DictSet(bd, keys[i],
                                   DictSet(Get(bd, keys[i]), "score", res[1].v)),
                           keys, res, i + 1)

RECURSIVE AddScores(_, _, _, _)
\* for key in metric_keys: bootstrap_dict[key]["score"] = result[key]
AddScores(bd, keys, res, i) ==
    IF i > Len(keys) THEN bd
    ELSE AddScores(DictSet(bd, keys[i],
                           DictSet(Get(bd, keys[i]), "score", Get(res, keys[i]))),
                   keys, res, i + 1)

\* the loop is exhausted: _compute_confidence_interval returns, core_compute
\* adds the scores and returns; its locals go out of scope
CoreComputeReturn ==
    /\ pc = "bootstrap"
    /\ idx > Len(metric_keys)
    /\ outcome' = Return(AddScores(bootstrap_dict, metric_keys, result, 1))
    /\ pc' = "idle"
    /\ result' = <<>>
    /\ metric_keys' = <<>>
    /\ idx' = 0
    /\ key' = ""
    /\ bootstrap_dict' = <<>>
    /\ UNCHANGED <<modvars, constructed, selfvars, call, trace, remembered,
                   observing>>

Next ==
    \/ Construct
    \/ PrepareData
    \/ PreparePipeline
    \/ PrepareMetric
    \/ CoreCompute
    \/ BootstrapIteration
    \/ CoreComputeReturn

Spec == Init /\ [][Next]_vars
SpecObserved == InitObserved /\ [][Next]_vars

\* ================================================================== claims

\* C1: prepare_data returns a dataset iff data is not None and both columns
\* are among the (loaded) dataset's column names; otherwise it raises
\* ValueError: for data None before any load, for a missing input_column
\* (checked first, also when both are missing) and for a missing label_column.
C1_PrepareDataContract ==
    (call.op = "prepare_data") =>
        LET data == call.args[1]
            ic == call.args[2]
            lc == call.args[3]
            cols == IF data.kind = "str" THEN load_dataset(data.name).column_names
                    ELSE IF data.kind = "Dataset" THEN data.column_names
                    ELSE {}
        IN /\ (outcome.kind = "return") <=>
                (data.kind # "None" /\ ic \in cols /\ lc \in cols)
           /\ outcome.kind = "return" =>
                (outcome.value.kind = "Dataset" /\ outcome.value.column_names = cols)
           /\ outcome.kind # "return" =>
                (outcome.kind = "raise" /\ outcome.exc = "ValueError")
           /\ data.kind = "None" => (outcome.msg = "data" /\ trace = <<>>)
           /\ (data.kind # "None" /\ ic \notin cols) => outcome.msg = "input_column"
           /\ (data.kind # "None" /\ ic \in cols /\ lc \notin cols) =>
                outcome.msg = "label_column"

\* both columns are missing from a real dataset and the input column is reported
C1_Witness ==
    /\ call.op = "prepare_data"
    /\ call.args[1].kind = "Dataset"
    /\ call.args[2] \notin call.args[1].column_names
    /\ call.args[3] \notin call.args[1].column_names
    /\ outcome = Raise("ValueError", "input_column")

\* C2: prepare_pipeline either returns a pipeline whose task is the
\* evaluator's task or raises ValueError, for every documented kind of
\* model_or_pipeline.
C2_ReturnsTaskPipelineOrValueError ==
    (call.op = "prepare_pipeline") =>
        \/ (outcome.kind = "return" /\ outcome.value.task = task)
        \/ (outcome.kind = "raise" /\ outcome.exc = "ValueError")

\* C3: prepare_metric: None without a default raises ValueError and loads
\* nothing; None with a default returns the module loaded from the default;
\* a str returns the module loaded from that name; anything else is returned
\* as it is, without a load.
C3_PrepareMetricContract ==
    (call.op = "prepare_metric") =>
        LET metric == call.args[1] IN
        /\ (metric.kind = "None" /\ default_metric_name.kind = "None") =>
              (outcome = Raise("ValueError", "no default metric") /\ trace = <<>>)
        /\ (metric.kind = "None" /\ default_metric_name.kind = "str") =>
              /\ outcome = Return(load(default_metric_name.name))
              /\ trace = << <<"load", default_metric_name.name>> >>
        /\ metric.kind = "str" =>
              /\ outcome = Return(load(metric.name))
              /\ trace = << <<"load", metric.name>> >>
        /\ metric.kind \notin {"None", "str"} =>
              (outcome = Return(metric) /\ trace = <<>>)

\* a named metric other than the default was asked for and loaded
C3_Witness ==
    /\ call.op = "prepare_metric"
    /\ call.args[1] = Str("precision_recall")
    /\ default_metric_name = Str("accuracy")
    /\ outcome = Return(load("precision_recall"))

\* C4: core_compute with strategy "bootstrap" returns a dict with exactly the
\* keys of metric.compute(predictions, references); every entry has exactly
\* the fields confidence_interval (a pair), standard_error and score, and
\* score is the metric's value for that key on the full data.
C4_BootstrapResultShape ==
    (call.op = "core_compute" /\ call.args[4] = "bootstrap" /\ pc = "idle") =>
        LET full == compute(call.args[3], call.args[2], call.args[1])
            out == outcome.value
        IN /\ outcome.kind = "return"
           /\ Keys(out) = Keys(full)
           /\ \A i \in 1..Len(out) :
                LET entry == out[i].v IN
                /\ Len(entry) = 3
                /\ {entry[j].k : j \in 1..3} =
                      {"confidence_interval", "standard_error", "score"}
                /\ Len(Get(entry, "confidence_interval")) = 2
                /\ Get(entry, "score") = Get(full, out[i].k)

\* a two-key metric went through the bootstrap and the two scores differ
C4_Witness ==
    /\ call.op = "core_compute" /\ call.args[4] = "bootstrap" /\ pc = "idle"
    /\ outcome.kind = "return"
    /\ Len(outcome.value) = 2
    /\ Get(Get(outcome.value, "precision"), "score")
         # Get(Get(outcome.value, "recall"), "score")

\* C5: the preprocessor is used only for a str or a model instance (as both
\* tokenizer and feature_extractor of the new pipeline); for None or a
\* pre-initialized pipeline it is ignored, the outcome is that of the call
\* with preprocessor None, and a warning is logged exactly when the ignored
\* preprocessor is not None.
C5_PreprocessorUse ==
    (call.op = "prepare_pipeline") =>
        LET m == call.args[1]
            p == call.args[2]
            is_model == m.kind \in {"str", "PreTrainedModel", "TFPreTrainedModel"}
            warning == <<"logger.warning", "Ignoring preprocessor">>
            warned == \E i \in 1..Len(trace) : trace[i] = warning
        IN /\ is_model =>
                /\ outcome = Return(Pipeline("new", task, m, p, p))
                /\ trace = << <<"pipeline", outcome.value>> >>
           /\ m.kind = "None" =>
                /\ outcome = Return(Pipeline("new", task, None, None, None))
                /\ trace[1] = <<"pipeline", outcome.value>>
           /\ (~is_model /\ m.kind # "None") =>
                /\ outcome.kind = "return" => outcome.value = m
                /\ \A i \in 1..Len(trace) : trace[i] = warning
           /\ ~is_model => outcome = prepare_pipeline(task, m, None).outcome
           /\ warned <=> (~is_model /\ p.kind # "None")

\* a pre-initialized pipeline of the right task came back as it was, and the
\* preprocessor passed with it was ignored with a warning
C5_Witness ==
    /\ call.op = "prepare_pipeline"
    /\ call.args[1].kind = "Pipeline"
    /\ call.args[2].kind # "None"
    /\ outcome = Return(call.args[1])
    /\ trace = << <<"logger.warning", "Ignoring preprocessor">> >>

\* C6: the constructor succeeds only when transformers and scipy are both
\* available; it raises ImportError for transformers first, else for scipy;
\* on failure task and default_metric_name are never set, on success they
\* are the constructor's arguments.
C6_ConstructorContract ==
    /\ constructed = "yes" =>
          /\ TRANSFORMERS_AVAILABLE /\ SCIPY_AVAILABLE
          /\ task \in Tasks /\ default_metric_name.kind \in {"None", "str"}
          /\ call.op = "__init__" =>
                (outcome = Return(None) /\ task = call.args[1]
                   /\ default_metric_name = call.args[2])
    /\ constructed = "failed" =>
          /\ call.op = "__init__"
          /\ task = Unset /\ default_metric_name = [kind |-> "unset"]
          /\ ~TRANSFORMERS_AVAILABLE =>
                outcome = Raise("ImportError", "transformers")
          /\ (TRANSFORMERS_AVAILABLE /\ ~SCIPY_AVAILABLE) =>
                outcome = Raise("ImportError", "scipy>=1.7.1")
          /\ ~(TRANSFORMERS_AVAILABLE /\ SCIPY_AVAILABLE)
    /\ (call.op = "__init__" /\ TRANSFORMERS_AVAILABLE /\ SCIPY_AVAILABLE) =>
          constructed = "yes"

\* neither library is there and the constructor complained about transformers
C6_Witness ==
    /\ constructed = "failed"
    /\ ~TRANSFORMERS_AVAILABLE /\ ~SCIPY_AVAILABLE
    /\ outcome = Raise("ImportError", "transformers")
    /\ task = Unset

\* C7: core_compute with any strategy other than "bootstrap" calls
\* metric.compute exactly once, never calls the bootstrap routine, raises
\* nothing and returns the metric's result unchanged.
C7_NonBootstrapPassThrough ==
    (call.op = "core_compute" /\ call.args[4] # "bootstrap") =>
        /\ pc = "idle"
        /\ outcome = Return(compute(call.args[3], call.args[2], call.args[1]))
        /\ trace = << <<"metric.compute", call.args[2], call.args[1]>> >>

\* an unrecognized strategy was passed and the plain result came back
C7_Witness ==
    /\ call.op = "core_compute" /\ call.args[4] = "other"
    /\ outcome.kind = "return"
    /\ Keys(outcome.value) = <<"precision", "recall">>
    /\ Len(trace) = 1

\* C8: prepare_data calls load_dataset exactly when data is a str (once, with
\* that name, also when a column check then fails); a pre-loaded dataset is
\* not loaded and, when validation passes, is returned as the same object.
C8_LoadOnlyForStr ==
    (call.op = "prepare_data") =>
        LET data == call.args[1] IN
        /\ data.kind = "str" => trace = << <<"load_dataset", data.name>> >>
        /\ data.kind # "str" => trace = <<>>
        /\ (data.kind = "Dataset" /\ outcome.kind = "return") =>
              outcome.value = data

\* a pre-loaded dataset passed validation and came back
C8_Witness ==
    /\ call.op = "prepare_data"
    /\ call.args[1].kind = "Dataset"
    /\ outcome = Return(call.args[1])
    /\ trace = <<>>

\* C9: _compute_confidence_interval calls bootstrap once per key, in the
\* order of metric_keys, on (predictions, references) with the given
\* confidence_level, n_resamples and random_state; the statistic of the call
\* for key k extracts k, and the entry of k is built from that call's result.
C9_BootstrapPerKey ==
    (call.op = "core_compute" /\ call.args[4] = "bootstrap") =>
        LET references == call.args[1]
            predictions == call.args[2]
            metric == call.args[3]
            cl == call.args[5]
            n == call.args[6]
            rs == call.args[7]
            keys == Keys(compute(metric, predictions, references))
            done == IF pc = "idle" THEN Len(keys) ELSE idx - 1
            dict == IF pc = "idle" THEN outcome.value ELSE bootstrap_dict
            seeds == IF rs = <<>> THEN 0..MaxSeed ELSE {rs[1]}
            \* the bootstrap distribution of key k, computed from its definition
            dist(k, seed) ==
                [r \in 1..n |->
                   Get(compute(metric, Pick(predictions, Resample(seed, r, Len(predictions))),
                               Pick(references, Resample(seed, r, Len(predictions)))), k)]
        IN /\ Len(trace) = 1 + done
           /\ trace[1] = <<"metric.compute", predictions, references>>
           /\ \A i \in 1..done :
                /\ trace[i + 1] = <<"bootstrap", predictions, references, keys[i],
                                    cl, n, rs>>
                /\ dict[i].k = keys[i]
                /\ \E seed \in seeds :
                     /\ Get(dict[i].v, "confidence_interval") =
                          << Quantile(dist(keys[i], seed), 100 - cl),
                             Quantile(dist(keys[i], seed), 100 + cl) >>
                     /\ Get(dict[i].v, "standard_error") =
                          n * Sum([r \in 1..n |-> dist(keys[i], seed)[r] * dist(keys[i], seed)[r]], n)
                            - Sum(dist(keys[i], seed), n) * Sum(dist(keys[i], seed), n)
           /\ Len(dict) = done

\* both keys of a two-key metric were bootstrapped and their intervals differ
C9_Witness ==
    /\ call.op = "core_compute" /\ call.args[4] = "bootstrap" /\ pc = "idle"
    /\ Len(trace) = 3
    /\ trace[2][4] = "precision" /\ trace[3][4] = "recall"
    /\ Get(Get(outcome.value, "precision"), "confidence_interval")
         # Get(Get(outcome.value, "recall"), "confidence_interval")

\* the later call repeats the remembered one
Repeated ==
    /\ remembered # None
    /\ pc = "idle"
    /\ call = remembered.call

\* C10 (as stated): no call changes task or default_metric_name, and a call's
\* outcome is determined by its arguments and those two fields: a repeated
\* call has the outcome of the earlier one.
C10_FrameAndDeterminism ==
    /\ [][constructed = "yes" =>
            (task' = task /\ default_metric_name' = default_metric_name)]_vars
    /\ [](Repeated => outcome = remembered.outcome)

\* C10 (amended): as above, except that core_compute with strategy
\* "bootstrap" and random_state None also depends on the resamples drawn.
C10_FrameAndDeterminismButUnseeded ==
    /\ [][constructed = "yes" =>
            (task' = task /\ default_metric_name' = default_metric_name)]_vars
    /\ []((Repeated /\ ~(call.op = "core_compute" /\ call.args[4] = "bootstrap"
                           /\ call.args[7] = <<>>))
            => outcome = remembered.outcome)

\* a seeded bootstrap was repeated after an earlier identical call
C10_Witness ==
    /\ Repeated
    /\ call.op = "core_compute" /\ call.args[4] = "bootstrap"
    /\ call.args[7] # <<>>
    /\ outcome = remembered.outcome
====
